---- MODULE Spec2Model ----
(***************************************************************************)
(* Model of post/Python/Calculation.py: the dask graph builders, the       *)
(* kernel adapters and the elementwise operators.                          *)
(*                                                                         *)
(* A lazy dask array is a node of an explicit graph; a concrete array is a *)
(* sequence of blocks (one per chunk); a block is a small n-dimensional    *)
(* array of rationals.  The native kernels of wrf.extension are opaque     *)
(* pure functions: the block a kernel returns is the term "kernel applied  *)
(* to the operand blocks it was passed".                                   *)
(***************************************************************************)
EXTENDS Integers, Sequences, FiniteSets, TLC

\* ---------------------------------------------------------------- bounds
MaxThreads == 2      \* thread budgets 1..MaxThreads
MaxWorkers == 2      \* worker counts 1..MaxWorkers
NumChunks == 2       \* blocks per dask array
NumCpus == 2         \* workers of the scheduler when no num_workers is given
MaxOtherCalls == 1   \* adapter calls of other requests in the process
NT == 2              \* time steps held by the grid store
NZ == 2              \* unstaggered vertical levels
NY == 1              \* unstaggered south-north points
NX == 1              \* unstaggered west-east points

\* ------------------------------------------------------------- rationals
\* Array elements are exact rationals [n, d] in lowest terms, d > 0;
\* d = 0 stands for the inf/NaN a division by zero produces.
RECURSIVE Gcd(_, _)
Gcd(a, b) == IF b = 0 THEN a ELSE Gcd(b, a % b)

Abs(x) == IF x < 0 THEN -x ELSE x

Rat(n, d) ==
  IF d = 0 THEN [n |-> 0, d |-> 0]
  ELSE LET g == Gcd(Abs(n), Abs(d))
           s == IF d < 0 THEN -1 ELSE 1
       IN [n |-> s * (n \div g), d |-> s * (d \div g)]

Num(i) == [n |-> i, d |-> 1]

\* wrf.Constants / wrf.ConversionFactors as Calculation.py uses them
T_BASE == Num(300)
G == Rat(981, 100)
PA_TO_HPA == Rat(1, 100)

RatOp(op, a, b) ==
  IF a.d = 0 \/ b.d = 0 THEN [n |-> 0, d |-> 0]
  ELSE CASE op = "add" -> Rat(a.n * b.d + b.n * a.d, a.d * b.d)
         [] op = "sub" -> Rat(a.n * b.d - b.n * a.d, a.d * b.d)
         [] op = "mul" -> Rat(a.n * b.n, a.d * b.d)
         [] op = "div" -> Rat(a.n * b.d, a.d * b.n)

\* ---------------------------------------------------------------- blocks
\* A numeric block is [kind |-> "arr", shape, data]: data in row-major order,
\* shape <<>> for a scalar.
RECURSIVE Prod(_)
Prod(shape) == IF shape = <<>> THEN 1 ELSE Head(shape) * Prod(Tail(shape))

Arr(shape, data) == [kind |-> "arr", shape |-> shape, data |-> data]
Scalar(r) == Arr(<<>>, <<r>>)
Nil == [kind |-> "nil"]
Err(what) == [kind |-> "err", what |-> what]
IsErr(v) == v.kind = "err"
IsArr(v) == v.kind = "arr"

\* 0-based multi-index of the 0-based flat index i
RECURSIVE Unravel(_, _)
Unravel(i, shape) ==
  IF shape = <<>> THEN <<>>
  ELSE LET r == Prod(Tail(shape))
       IN <<i \div r>> \o Unravel(i % r, Tail(shape))

RECURSIVE Ravel(_, _)
Ravel(idx, shape) ==
  IF shape = <<>> THEN 0
  ELSE Head(idx) * Prod(Tail(shape)) + Ravel(Tail(idx), Tail(shape))

At(a, idx) == a.data[Ravel(idx, a.shape) + 1]

\* numpy broadcasting: shapes are aligned on the right, a dimension of 1 stretches
PadShape(s, k) == [i \in 1..k |-> IF i <= k - Len(s) THEN 1 ELSE s[i - (k - Len(s))]]
Max(a, b) == IF a >= b THEN a ELSE b
Broadcastable(s1, s2) ==
  LET k == Max(Len(s1), Len(s2))
      p1 == PadShape(s1, k)
      p2 == PadShape(s2, k)
  IN \A i \in 1..k : p1[i] = p2[i] \/ p1[i] = 1 \/ p2[i] = 1
BroadcastShape(s1, s2) ==
  LET k == Max(Len(s1), Len(s2))
      p1 == PadShape(s1, k)
      p2 == PadShape(s2, k)
  IN [i \in 1..k |-> Max(p1[i], p2[i])]
\* the index into an operand of shape s for the result index idx
Project(idx, s) ==
  LET off == Len(idx) - Len(s)
  IN [i \in 1..Len(s) |-> IF s[i] = 1 THEN 0 ELSE idx[i + off]]

ElemArr(op, a, b) ==
  IF ~Broadcastable(a.shape, b.shape) THEN Err("ValueError")
  ELSE LET s == BroadcastShape(a.shape, b.shape)
       IN Arr(s, [i \in 1..Prod(s) |->
                    LET idx == Unravel(i - 1, s)
                    IN RatOp(op, At(a, Project(idx, a.shape)),
                                 At(b, Project(idx, b.shape)))])

\* a[0]: the first entry along the leading axis
Slice0(a) ==
  LET s == Tail(a.shape)
  IN Arr(s, SubSeq(a.data, 1, Prod(s)))

\* position (1-based) of the negative axis ax in a shape
AxisPos(shape, ax) == Len(shape) + ax + 1

\* a.where(a >= 0, 0)
Clamp(a) == Arr(a.shape, [i \in 1..Len(a.data) |->
                 IF a.data[i].n >= 0 THEN a.data[i] ELSE Num(0)])

\* a.any()
AnyNonZero(a) == \E i \in 1..Len(a.data) : a.data[i].n # 0 \/ a.data[i].d = 0

\* a[..., ::-1, :, :]
ReverseLevels(a) ==
  LET p == AxisPos(a.shape, -3)
  IN Arr(a.shape, [i \in 1..Len(a.data) |->
        LET idx == Unravel(i - 1, a.shape)
        IN At(a, [idx EXCEPT ![p] = a.shape[p] - 1 - idx[p]])])

\* an array of the shape filled with ones: what da.zeros must not produce
Ones(shape) == Arr(shape, [i \in 1..Prod(shape) |-> Num(1)])

\* da.zeros(shape, dtype)
Zeros(shape) == Arr(shape, [i \in 1..Prod(shape) |-> Num(0)])

\* new_dims = list(hgt.shape); new_dims.insert(-2, 1); hgt.reshape(new_dims)
InsertUnitDim(a) ==
  LET k == Len(a.shape) - 2
  IN Arr(SubSeq(a.shape, 1, k) \o <<1>> \o SubSeq(a.shape, k + 1, Len(a.shape)),
         a.data)

\* ArrayTools.wrapped_unstagger: the average of adjacent points along axis ax,
\* which loses one point
Unstagger(a, ax) ==
  LET p == AxisPos(a.shape, ax)
      s == [a.shape EXCEPT ![p] = a.shape[p] - 1]
  IN Arr(s, [i \in 1..Prod(s) |->
        LET idx == Unravel(i - 1, s)
        IN RatOp("mul", Rat(1, 2),
                 RatOp("add", At(a, idx), At(a, [idx EXCEPT ![p] = idx[p] + 1])))])

\* ------------------------------------------------- elementwise operators
ElementwiseOps == {"wrapped_add", "wrapped_sub", "wrapped_mul", "wrapped_div"}

\* an operator on blocks: numeric on numeric blocks, a term on opaque ones
ElemVal(op, a, b) ==
  IF IsErr(a) THEN a
  ELSE IF IsErr(b) THEN b
  ELSE IF IsArr(a) /\ IsArr(b) THEN ElemArr(op, a, b)
  ELSE [kind |-> "op", fn |-> op, args |-> <<a, b>>]

wrapped_add(base, add) == ElemVal("add", base, add)
wrapped_sub(base, sub) == ElemVal("sub", base, sub)
wrapped_mul(base, prod) == ElemVal("mul", base, prod)
wrapped_div(base, div) == ElemVal("div", base, div)

\* --------------------------------------------------------- kernel adapters
\* Each adapter: its positional parameters (omp_threads last, default 1), the
\* kernel it imports from wrf.extension, and the parameters it passes to it.
slp_wrap == [params |-> <<"destag_ph", "tk", "full_p", "qvapor", "omp_threads">>,
             kernel |-> "_slp",
             passes |-> <<"destag_ph", "tk", "full_p", "qvapor">>]
tk_wrap == [params |-> <<"full_p", "full_t", "omp_threads">>,
            kernel |-> "_tk",
            passes |-> <<"full_p", "full_t">>]
td_wrap == [params |-> <<"full_p", "qvapor", "omp_threads">>,
            kernel |-> "_td",
            passes |-> <<"full_p", "qvapor">>]
tv_wrap == [params |-> <<"temp_k", "qvapor", "omp_threads">>,
            kernel |-> "_tv",
            passes |-> <<"temp_k", "qvapor">>]
wetbulb_wrap == [params |-> <<"full_p", "tk", "qv", "omp_threads">>,
                 kernel |-> "_wetbulb",
                 passes |-> <<"full_p", "tk", "qv">>]
dbz_wrap == [params |-> <<"full_p", "tk", "qv", "qr", "qs", "qg", "sn0", "ivarint",
                          "iliqskin", "omp_threads">>,
             kernel |-> "_dbz",
             passes |-> <<"full_p", "tk", "qv", "qr", "qs", "qg", "sn0", "ivarint",
                          "iliqskin">>]
srh_wrap == [params |-> <<"u1", "v1", "z1", "ter", "lats", "top", "omp_threads">>,
             kernel |-> "_srhel",
             passes |-> <<"u1", "v1", "z1", "ter", "lats", "top">>]
udhel_wrap == [params |-> <<"zp", "mapfct", "u", "v", "wstag", "dx", "dy", "bottom",
                            "top", "omp_threads">>,
               kernel |-> "_udhel",
               passes |-> <<"zp", "mapfct", "u", "v", "wstag", "dx", "dy", "bottom",
                            "top">>]
cape_wrap == [params |-> <<"p_hpa", "tk", "qv", "z", "ter", "psfc_hpa", "missing",
                           "i3dflag", "ter_follow", "omp_threads">>,
              kernel |-> "_cape",
              passes |-> <<"p_hpa", "tk", "qv", "z", "ter", "psfc_hpa", "missing",
                           "i3dflag", "ter_follow">>]
omega_wrap == [params |-> <<"qv", "tk", "wa", "full_p", "omp_threads">>,
               kernel |-> "_omega",
               passes |-> <<"qv", "tk", "wa", "full_p">>]
pw_wrap == [params |-> <<"full_p", "tv", "qv", "ht", "omp_threads">>,
            kernel |-> "_pw",
            passes |-> <<"full_p", "tv", "qv", "ht">>]
rh_wrap == [params |-> <<"qvapor", "full_p", "tk", "omp_threads">>,
            kernel |-> "_rh",
            passes |-> <<"qvapor", "full_p", "tk">>]
avo_wrap == [params |-> <<"u", "v", "msfu", "msfv", "msfm", "cor", "dx", "dy",
                          "omp_threads">>,
             kernel |-> "_avo",
             passes |-> <<"u", "v", "msfu", "msfv", "msfm", "cor", "dx", "dy">>]
pvo_wrap == [params |-> <<"u", "v", "full_t", "full_p", "msfu", "msfv", "msfm", "cor",
                          "dx", "dy", "omp_threads">>,
             kernel |-> "_pvo",
             passes |-> <<"u", "v", "msfu", "msfv", "msfm", "cor", "dx", "dy">>]

Adapters == [slp_wrap |-> slp_wrap, tk_wrap |-> tk_wrap, td_wrap |-> td_wrap,
             tv_wrap |-> tv_wrap, wetbulb_wrap |-> wetbulb_wrap, dbz_wrap |-> dbz_wrap,
             srh_wrap |-> srh_wrap, udhel_wrap |-> udhel_wrap, cape_wrap |-> cape_wrap,
             omega_wrap |-> omega_wrap, pw_wrap |-> pw_wrap, rh_wrap |-> rh_wrap,
             avo_wrap |-> avo_wrap, pvo_wrap |-> pvo_wrap]
AdapterNames == DOMAIN Adapters

\* Python's binding of positional arguments to the parameters of f: the position
\* of the argument each parameter receives, 0 for a parameter left at its default
Arity(fn) == IF fn \in ElementwiseOps THEN 2 ELSE Len(Adapters[fn].params)
Required(fn) == IF fn \in ElementwiseOps THEN 2 ELSE Len(Adapters[fn].params) - 1
Callable(fn, nargs) == Required(fn) <= nargs /\ nargs <= Arity(fn)
ParamPos(fn, name) ==
  CHOOSE i \in 1..Len(Adapters[fn].params) : Adapters[fn].params[i] = name
\* the value an adapter's parameter holds in a call with the arguments args
ParamValue(fn, name, args) ==
  IF ParamPos(fn, name) <= Len(args) THEN args[ParamPos(fn, name)]
  ELSE Scalar(Num(1))

\* omp_set_num_threads(omp_threads): the ceiling the adapter call sets
AdapterCeiling(fn, args) == ParamValue(fn, "omp_threads", args).data[1].n

\* result = _kernel(...): the operands the adapter hands to its kernel
KernelArgs(fn, args) ==
  [i \in 1..Len(Adapters[fn].passes) |-> ParamValue(fn, Adapters[fn].passes[i], args)]

\* the kernel itself: an opaque pure function of the operands it is passed
Kernel(name, operands) ==
  IF \E i \in 1..Len(operands) : IsErr(operands[i])
  THEN operands[CHOOSE i \in 1..Len(operands) : IsErr(operands[i]) /\
                    \A j \in 1..(i - 1) : ~IsErr(operands[j])]
  ELSE [kind |-> "ker", fn |-> name, args |-> operands]

\* one call f(*args) on blocks, as map_blocks makes it for one chunk
CallBlock(fn, args) ==
  IF ~Callable(fn, Len(args)) THEN Err("TypeError")
  ELSE CASE fn = "wrapped_add" -> wrapped_add(args[1], args[2])
         [] fn = "wrapped_sub" -> wrapped_sub(args[1], args[2])
         [] fn = "wrapped_mul" -> wrapped_mul(args[1], args[2])
         [] fn = "wrapped_div" -> wrapped_div(args[1], args[2])
         [] OTHER -> Kernel(Adapters[fn].kernel, KernelArgs(fn, args))

\* -------------------------------------------------------------- grid store
\* The dataset the builders read: [present, zero, qv], the variables it holds,
\* those of them that are zero everywhere, and the lowest water-vapour mixing
\* ratio.  Every variable has NumChunks blocks, each with a leading time axis;
\* a staggered variable has one more point along its axis.
Mass3D == {"T", "P", "PB", "QVAPOR", "QRAIN", "QSNOW", "QGRAUP", "GHT"}
ZStag == {"PH", "PHB", "W"}
XStag == {"U", "UU"}
YStag == {"V", "VV"}
Surface == {"HGT", "HGT_M", "PSFC", "MAPFAC_M", "F", "XLAT", "XLAT_M", "RAINC", "RAINNC"}
AllVars == Mass3D \cup ZStag \cup XStag \cup YStag \cup Surface \cup {"MAPFAC_U", "MAPFAC_V"}

GridShape(var) ==
  CASE var \in Mass3D -> <<NT, NZ, NY, NX>>
    [] var \in ZStag -> <<NT, NZ + 1, NY, NX>>
    [] var \in XStag -> <<NT, NZ, NY, NX + 1>>
    [] var \in YStag -> <<NT, NZ, NY + 1, NX>>
    [] var \in Surface -> <<NT, NY, NX>>
    [] var = "MAPFAC_U" -> <<NT, NY, NX + 1>>
    [] var = "MAPFAC_V" -> <<NT, NY + 1, NX>>

GridBase(st, var) ==
  CASE var = "P" -> 1000
    [] var = "PB" -> 500
    [] var = "PSFC" -> 1010
    [] var = "QVAPOR" -> st.qv
    [] var \in {"PH", "GHT"} -> 10
    [] var = "PHB" -> 20
    [] var \in {"U", "UU"} -> 3
    [] var \in {"V", "VV"} -> 4
    [] var \in {"HGT", "HGT_M"} -> 5
    [] var \in {"XLAT", "XLAT_M"} -> 40
    [] var = "RAINNC" -> 7
    [] OTHER -> 0

\* block c of a variable, time axis included
GridBlock(st, var, c) ==
  LET s == GridShape(var)
  IN Arr(s, [i \in 1..Prod(s) |->
               IF var \in st.zero THEN Num(0)
               ELSE Num(GridBase(st, var) + (i - 1) + (c - 1))])

\* the attributes DX and DY of the dataset
GridAttr(name) == Scalar(Num(IF name = "DX" THEN 1000 ELSE 2000))

\* ------------------------------------------------------------------ graph
\* What a Python name or a map_blocks argument refers to: a lazy array (a node
\* of the graph), a concrete value, a string, or one of the builder's own
\* parameters omp_threads and num_workers.
NodeRef(id) == [k |-> "node", id |-> id, val |-> Nil, s |-> ""]
Lit(v) == [k |-> "lit", id |-> 0, val |-> v, s |-> ""]
OmpRef(n) == [k |-> "omp", id |-> 0, val |-> Scalar(Num(n)), s |-> ""]
WorkersRef(n) == [k |-> "workers", id |-> 0, val |-> Scalar(Num(n)), s |-> ""]
StrRef(str) == [k |-> "str", id |-> 0, val |-> Nil, s |-> str]

Node(op) == [op |-> op, fn |-> "", args |-> <<>>, var |-> "", sliced |-> FALSE,
             ax |-> 0, shape |-> <<>>]

\* a one-array operation on a block: its value r on a numeric block v
Lift(r, name, v) ==
  IF IsArr(v) THEN r
  ELSE IF IsErr(v) THEN v
  ELSE [kind |-> "op", fn |-> name, args |-> <<v>>]

\* block c of a node, given the blocks (or literal values) a of its arguments
NodeApply(node, c, st, a) ==
  CASE node.op = "grid" ->
         IF node.sliced THEN Slice0(GridBlock(st, node.var, c))
         ELSE GridBlock(st, node.var, c)
    [] node.op = "zeros" -> Zeros(node.shape)
    [] node.op = "map" -> CallBlock(node.fn, a)
    [] node.op = "unstagger" ->
         Lift(Unstagger(a[1], node.ax), "unstagger", a[1])
    [] node.op = "where" -> Lift(Clamp(a[1]), "where", a[1])
    [] node.op = "reshape" -> Lift(InsertUnitDim(a[1]), "reshape", a[1])
    [] node.op = "reverse" -> Lift(ReverseLevels(a[1]), "reverse", a[1])
    [] node.op = "any" ->
         Lift(Scalar(Num(IF AnyNonZero(a[1]) THEN 1 ELSE 0)), "any", a[1])

\* the graph as the scheduler would evaluate it: block c of node id
RECURSIVE NodeBlock(_, _, _, _)
NodeBlock(nodes, id, c, st) ==
  LET node == nodes[id]
  IN NodeApply(node, c, st,
       [i \in 1..Len(node.args) |->
          IF node.args[i].k = "node" THEN NodeBlock(nodes, node.args[i].id, c, st)
          ELSE node.args[i].val])

\* the concrete array a finished scheduler run hands back: the blocks in chunk
\* order, or the exception of the first failed block
Gather(blocks) ==
  IF \E c \in 1..Len(blocks) : IsErr(blocks[c])
  THEN blocks[CHOOSE c \in 1..Len(blocks) : IsErr(blocks[c]) /\
                \A j \in 1..(c - 1) : ~IsErr(blocks[j])]
  ELSE [kind |-> "np", blocks |-> blocks]

\* array.compute(): the whole run of the scheduler on the graph below node id
Materialise(nodes, id, st) ==
  Gather([c \in 1..NumChunks |-> NodeBlock(nodes, id, c, st)])

\* ------------------------------------------------------------- statements
\* A builder is the sequence of its statements.  V names a Python variable
\* read as an argument, K a literal.  (The dtype= keyword of map_blocks only
\* labels the lazy array and is left out.)
V(name) == [a |-> "var", name |-> name, c |-> Num(0)]
K(r) == [a |-> "const", name |-> "", c |-> r]

Stmt(kind) == [s |-> kind, dst |-> "", src |-> "", var |-> "", fn |-> "",
               args |-> <<>>, ax |-> 0, sliced |-> TRUE, to |-> 0, c |-> Num(0),
               cands |-> <<>>]
\* dst = daskArray[var].data[0]   (sliced)    dst = daskArray[var]   (not sliced)
Fetch(dst, var, sliced) == [Stmt("fetch") EXCEPT !.dst = dst, !.var = var, !.sliced = sliced]
\* dst = daskArray[src].data[0], src a variable holding the name
FetchNamed(dst, src) == [Stmt("fetchnamed") EXCEPT !.dst = dst, !.src = src]
\* try: dst = daskArray[var].data[0]  except KeyError: dst = da.zeros(src.shape, src.dtype)
FetchOrZeros(dst, var, src) == [Stmt("fetchorzeros") EXCEPT !.dst = dst, !.var = var, !.src = src]
\* dst = daskArray.DX
Attr(dst, var) == [Stmt("attr") EXCEPT !.dst = dst, !.var = var]
\* dst = wrapped_either(daskArray, cands)
Either(dst, cands) == [Stmt("either") EXCEPT !.dst = dst, !.cands = cands]
\* dst = wrapped_lat_varname(daskArray, stagger=None)
LatVarname(dst) == [Stmt("either") EXCEPT !.dst = dst, !.cands = <<"XLAT", "XLAT_M">>]
\* dst = map_blocks(fn, *args, dtype=...)
MapBlocks(dst, fn, args) == [Stmt("map") EXCEPT !.dst = dst, !.fn = fn, !.args = args]
\* dst = wrapped_unstagger(src, ax, *args)
WrappedUnstagger(dst, src, ax, args) ==
  [Stmt("unstagger") EXCEPT !.dst = dst, !.src = src, !.ax = ax, !.args = args]
\* dst = src.where(src >= 0, 0)
WhereNonNeg(dst, src) == [Stmt("where") EXCEPT !.dst = dst, !.src = src]
\* new_dims = list(src.shape); new_dims.insert(-2, 1); dst = src.reshape(new_dims)
Reshape(dst, src) == [Stmt("reshape") EXCEPT !.dst = dst, !.src = src]
\* dst = np.ascontiguousarray(src[..., ::-1, :, :])
AsContiguous(dst, src) == [Stmt("ascontiguous") EXCEPT !.dst = dst, !.src = src]
\* dst = 1 if src.any() else 0
AnyFlag(dst, src) == [Stmt("any") EXCEPT !.dst = dst, !.src = src]
\* dst = 1 if src else 0
BoolFlag(dst, src) == [Stmt("boolflag") EXCEPT !.dst = dst, !.src = src]
\* dst = c
Const(dst, c) == [Stmt("const") EXCEPT !.dst = dst, !.c = c]
\* dst = default_fill(np.float64)
DefaultFill(dst) == [Stmt("fill") EXCEPT !.dst = dst]
\* del(dst)
Del(name) == [Stmt("del") EXCEPT !.dst = name]
\* if src == var: (fall through)  else: (continue at statement to)
IfName(src, var, to) == [Stmt("ifname") EXCEPT !.src = src, !.var = var, !.to = to]
\* if src: (fall through)  else: (continue at statement to)
IfTrue(src, to) == [Stmt("iftrue") EXCEPT !.src = src, !.to = to]
\* the end of an if-branch: continue at statement to
Goto(to) == [Stmt("goto") EXCEPT !.to = to]
\* return src.compute(num_workers=num_workers)
Compute(src) == [Stmt("compute") EXCEPT !.src = src]

OMP == V("omp_threads")

\* --------------------------------------------------------------- builders
get_theta ==
  << Fetch("t", "T", TRUE),
     MapBlocks("full_t", "wrapped_add", <<V("t"), K(T_BASE), OMP>>),
     Compute("full_t") >>

\* get_tk with del(p) moved above the node that consumes p
get_tk_early_del ==
  << Fetch("t", "T", TRUE),
     Fetch("p", "P", TRUE),
     Fetch("pb", "PB", TRUE),
     MapBlocks("full_t", "wrapped_add", <<V("t"), K(T_BASE)>>),
     Del("p"),
     MapBlocks("full_p", "wrapped_add", <<V("p"), V("pb")>>),
     Del("t"),
     Del("pb"),
     MapBlocks("tk", "tk_wrap", <<V("full_p"), V("full_t"), OMP>>),
     Compute("tk") >>

get_tk ==
  << Fetch("t", "T", TRUE),
     Fetch("p", "P", TRUE),
     Fetch("pb", "PB", TRUE),
     MapBlocks("full_t", "wrapped_add", <<V("t"), K(T_BASE)>>),
     MapBlocks("full_p", "wrapped_add", <<V("p"), V("pb")>>),
     Del("t"),
     Del("p"),
     Del("pb"),
     MapBlocks("tk", "tk_wrap", <<V("full_p"), V("full_t"), OMP>>),
     Compute("tk") >>

get_tv ==
  << Fetch("t", "T", TRUE),
     Fetch("p", "P", TRUE),
     Fetch("pb", "PB", TRUE),
     Fetch("qv", "QVAPOR", TRUE),
     MapBlocks("full_t", "wrapped_add", <<V("t"), K(T_BASE)>>),
     MapBlocks("full_p", "wrapped_add", <<V("p"), V("pb")>>),
     Del("t"),
     Del("p"),
     Del("pb"),
     MapBlocks("tk", "tk_wrap", <<V("full_p"), V("full_t"), OMP>>),
     MapBlocks("tv", "tv_wrap", <<V("tk"), V("qv"), OMP>>),
     Compute("tv") >>

get_tw ==
  << Fetch("t", "T", TRUE),
     Fetch("p", "P", TRUE),
     Fetch("pb", "PB", TRUE),
     Fetch("qv", "QVAPOR", TRUE),
     MapBlocks("full_t", "wrapped_add", <<V("t"), K(T_BASE)>>),
     MapBlocks("full_p", "wrapped_add", <<V("p"), V("pb")>>),
     Del("t"),
     Del("p"),
     Del("pb"),
     MapBlocks("tk", "tk_wrap", <<V("full_p"), V("full_t"), OMP>>),
     MapBlocks("tw", "wetbulb_wrap", <<V("tk"), V("qv"), OMP>>),
     Compute("tw") >>

get_cape3d ==
  << DefaultFill("missing"),
     Fetch("t", "T", TRUE),
     Fetch("p", "P", TRUE),
     Fetch("pb", "PB", TRUE),
     Fetch("qv", "QVAPOR", TRUE),
     Fetch("ph", "PH", TRUE),
     Fetch("phb", "PHB", TRUE),
     Fetch("ter", "HGT", TRUE),
     Fetch("psfc", "PSFC", TRUE),
     MapBlocks("full_t", "wrapped_add", <<V("t"), K(T_BASE)>>),
     MapBlocks("full_p", "wrapped_add", <<V("p"), V("pb")>>),
     MapBlocks("tk", "tk_wrap", <<V("full_p"), V("full_t"), OMP>>),
     Del("full_t"),
     Del("t"),
     Del("p"),
     MapBlocks("geopt", "wrapped_add", <<V("ph"), V("phb")>>),
     WrappedUnstagger("geopt_unstag", "geopt", -3, <<>>),
     MapBlocks("z", "wrapped_div", <<V("geopt_unstag"), K(G)>>),
     Del("ph"),
     Del("phb"),
     Del("geopt"),
     Del("geopt_unstag"),
     MapBlocks("p_hpa", "wrapped_mul", <<V("full_p"), K(PA_TO_HPA)>>),
     MapBlocks("psfc_hpa", "wrapped_mul", <<V("psfc"), K(PA_TO_HPA)>>),
     Del("full_p"),
     Del("psfc"),
     Const("i3dflag", Num(1)),
     Const("ter_follow", Num(1)),
     MapBlocks("cape_cin", "cape_wrap",
               <<V("p_hpa"), V("tk"), V("qv"), V("z"), V("ter"), V("psfc_hpa"),
                 V("missing"), V("i3dflag"), V("ter_follow"), OMP>>),
     Compute("cape_cin") >>

get_dbz ==
  << Fetch("t", "T", TRUE),
     Fetch("p", "P", TRUE),
     Fetch("pb", "PB", TRUE),
     Fetch("qv", "QVAPOR", TRUE),
     Fetch("qr", "QRAIN", TRUE),
     FetchOrZeros("qs", "QSNOW", "qv"),
     FetchOrZeros("qgraup", "QGRAUP", "qv"),
     MapBlocks("full_t", "wrapped_add", <<V("t"), K(T_BASE)>>),
     MapBlocks("full_p", "wrapped_add", <<V("p"), V("pb")>>),
     MapBlocks("tk", "tk_wrap", <<V("full_p"), V("full_t"), OMP>>),
     AnyFlag("sn0", "qs"),
     BoolFlag("ivarint", "use_varint"),
     BoolFlag("iliqskin", "use_liqskin"),
     Del("t"),
     Del("p"),
     Del("pb"),
     MapBlocks("dbz", "dbz_wrap",
               <<V("full_p"), V("tk"), V("qv"), V("qr"), V("qs"), V("qgraup"),
                 V("sn0"), V("ivarint"), V("iliqskin"), OMP>>),
     Compute("dbz") >>

get_dewpoint ==
  << Fetch("p", "P", TRUE),
     Fetch("pb", "PB", TRUE),
     Fetch("qvapor", "QVAPOR", TRUE),
     MapBlocks("full_p", "wrapped_add", <<V("p"), V("pb")>>),
     MapBlocks("full_p_div", "wrapped_mul", <<V("full_p"), K(Rat(1, 100))>>),
     Del("p"),
     Del("pb"),
     Del("full_p"),
     WhereNonNeg("qvapor", "qvapor"),
     MapBlocks("td", "td_wrap", <<V("full_p_div"), V("qvapor"), OMP>>),
     Compute("td") >>

get_geoht ==
  << Either("varname", <<"PH", "GHT">>),
     IfName("varname", "PH", 9),
     Fetch("ph", "PH", TRUE),
     Fetch("phb", "PHB", TRUE),
     Fetch("hgt", "HGT", TRUE),
     MapBlocks("geopt", "wrapped_add", <<V("ph"), V("phb")>>),
     WrappedUnstagger("geopt_f", "geopt", -3, <<>>),
     Goto(12),
     Fetch("geopt", "GHT", TRUE),
     Fetch("hgt", "HGT_M", TRUE),
     MapBlocks("geopt_f", "wrapped_mul", <<V("geopt"), K(G)>>),
     IfTrue("height", 20),
     IfTrue("msl", 16),
     MapBlocks("mslh", "wrapped_div", <<V("geopt_f"), K(G)>>),
     Compute("mslh"),
     Reshape("hgt", "hgt"),
     MapBlocks("mslh", "wrapped_div", <<V("geopt_f"), K(G)>>),
     MapBlocks("mslh_f", "wrapped_sub", <<V("mslh"), V("hgt")>>),
     Compute("mslh_f"),
     Compute("geopt_f") >>

get_srh ==
  << LatVarname("lat_VN"),
     FetchNamed("lats", "lat_VN"),
     Fetch("hgt", "HGT", TRUE),
     Fetch("ph", "PH", TRUE),
     Fetch("phb", "PHB", TRUE),
     Either("varname", <<"U", "UU">>),
     FetchNamed("uS", "varname"),
     WrappedUnstagger("u", "uS", -1, <<>>),
     Either("varname", <<"V", "VV">>),
     FetchNamed("vS", "varname"),
     WrappedUnstagger("v", "vS", -2, <<>>),
     MapBlocks("geopt", "wrapped_add", <<V("ph"), V("phb")>>),
     WrappedUnstagger("geopt_f", "geopt", -3, <<V("num_workers")>>),
     MapBlocks("z", "wrapped_div", <<V("geopt_f"), K(G)>>),
     Del("ph"),
     Del("phb"),
     Del("geopt"),
     Del("geopt_f"),
     AsContiguous("u1", "u"),
     AsContiguous("v1", "v"),
     AsContiguous("z1", "z"),
     Del("u"),
     Del("v"),
     Del("z"),
     MapBlocks("srh", "srh_wrap",
               <<V("u1"), V("v1"), V("z1"), V("hgt"), V("lats"), V("top"), OMP>>),
     Compute("srh") >>

get_udhel ==
  << Fetch("wstag", "W", TRUE),
     Fetch("ph", "PH", TRUE),
     Fetch("phb", "PHB", TRUE),
     Fetch("mapfct", "MAPFAC_M", TRUE),
     Attr("dx", "DX"),
     Attr("dy", "DY"),
     Either("varname", <<"U", "UU">>),
     FetchNamed("uS", "varname"),
     WrappedUnstagger("u", "uS", -1, <<>>),
     Either("varname", <<"V", "VV">>),
     FetchNamed("vS", "varname"),
     WrappedUnstagger("v", "vS", -2, <<>>),
     Del("uS"),
     Del("vS"),
     MapBlocks("geopt", "wrapped_add", <<V("ph"), V("phb")>>),
     WrappedUnstagger("geopt_f", "geopt", -3, <<>>),
     MapBlocks("zp", "wrapped_div", <<V("geopt_f"), K(G)>>),
     Del("ph"),
     Del("phb"),
     Del("geopt"),
     Del("geopt_f"),
     MapBlocks("udhel", "udhel_wrap",
               <<V("zp"), V("mapfct"), V("u"), V("v"), V("wstag"), V("dx"), V("dy"),
                 V("bottom"), V("top"), OMP>>),
     Compute("udhel") >>

get_omega ==
  << Fetch("t", "T", TRUE),
     Fetch("p", "P", TRUE),
     Fetch("w", "W", TRUE),
     Fetch("pb", "PB", TRUE),
     Fetch("qv", "QVAPOR", TRUE),
     WrappedUnstagger("wa", "w", -3, <<>>),
     MapBlocks("full_t", "wrapped_add", <<V("t"), K(T_BASE)>>),
     MapBlocks("full_p", "wrapped_add", <<V("p"), V("pb")>>),
     MapBlocks("tk", "tk_wrap", <<V("full_p"), V("full_t"), OMP>>),
     Del("t"),
     Del("p"),
     Del("pb"),
     Del("full_t"),
     MapBlocks("omega", "omega_wrap", <<V("qv"), V("tk"), V("wa"), V("full_p"), OMP>>),
     Compute("omega") >>

get_accum_precip ==
  << Fetch("rainc", "RAINC", TRUE),
     Fetch("rainnc", "RAINNC", TRUE),
     MapBlocks("rainsum", "wrapped_add", <<V("rainc"), V("rainnc")>>),
     Compute("rainsum") >>

get_pw ==
  << Fetch("t", "T", TRUE),
     Fetch("p", "P", TRUE),
     Fetch("pb", "PB", TRUE),
     Fetch("ph", "PH", TRUE),
     Fetch("phb", "PHB", TRUE),
     Fetch("qv", "QVAPOR", TRUE),
     MapBlocks("full_p", "wrapped_add", <<V("p"), V("pb")>>),
     MapBlocks("full_ph", "wrapped_add", <<V("ph"), V("pb")>>),
     MapBlocks("ht", "wrapped_div", <<V("full_ph"), K(G)>>),
     MapBlocks("full_t", "wrapped_add", <<V("t"), K(T_BASE)>>),
     Del("p"),
     Del("pb"),
     Del("ph"),
     MapBlocks("tk", "tk_wrap", <<V("full_p"), V("full_t"), OMP>>),
     MapBlocks("tv", "tv_wrap", <<V("tk"), V("qv"), OMP>>),
     Del("full_t"),
     Del("tk"),
     MapBlocks("pw", "pw_wrap", <<V("full_p"), V("tv"), V("qv"), V("ht"), OMP>>),
     Compute("pw") >>

get_rh ==
  << Fetch("t", "T", TRUE),
     Fetch("p", "P", TRUE),
     Fetch("pb", "PB", TRUE),
     Fetch("qvapor", "QVAPOR", FALSE),
     MapBlocks("full_t", "wrapped_add", <<V("t"), K(T_BASE)>>),
     MapBlocks("full_p", "wrapped_add", <<V("p"), V("pb")>>),
     Del("t"),
     Del("p"),
     Del("pb"),
     WhereNonNeg("qvapor", "qvapor"),
     MapBlocks("tk", "tk_wrap", <<V("full_p"), V("full_t"), OMP>>),
     Del("full_t"),
     MapBlocks("rh", "rh_wrap", <<V("qvapor"), V("full_p"), V("tk"), OMP>>),
     Compute("rh") >>

get_slp ==
  << Fetch("t", "T", TRUE),
     Fetch("p", "P", TRUE),
     Fetch("pb", "PB", TRUE),
     Fetch("qvapor", "QVAPOR", TRUE),
     Fetch("ph", "PH", TRUE),
     Fetch("phb", "PHB", TRUE),
     MapBlocks("full_t", "wrapped_add", <<V("t"), K(T_BASE)>>),
     MapBlocks("full_p", "wrapped_add", <<V("p"), V("pb")>>),
     WhereNonNeg("qvapor", "qvapor"),
     Del("t"),
     Del("p"),
     Del("pb"),
     MapBlocks("pre_full_ph", "wrapped_add", <<V("ph"), V("phb")>>),
     MapBlocks("full_ph", "wrapped_div", <<V("pre_full_ph"), K(G)>>),
     WrappedUnstagger("destag_ph", "full_ph", -3, <<>>),
     Del("full_ph"),
     Del("ph"),
     Del("phb"),
     MapBlocks("tk", "tk_wrap", <<V("full_p"), V("full_t"), OMP>>),
     MapBlocks("slp", "slp_wrap",
               <<V("destag_ph"), V("tk"), V("full_p"), V("qvapor"), OMP>>),
     Compute("slp") >>

get_avo ==
  << Fetch("u", "U", TRUE),
     Fetch("v", "V", TRUE),
     Fetch("msfu", "MAPFAC_U", TRUE),
     Fetch("msfv", "MAPFAC_V", TRUE),
     Fetch("msfm", "MAPFAC_M", TRUE),
     Fetch("cor", "F", TRUE),
     Attr("dx", "DX"),
     Attr("dy", "DY"),
     MapBlocks("avo", "avo_wrap",
               <<V("u"), V("v"), V("msfu"), V("msfv"), V("msfm"), V("cor"), V("dx"),
                 V("dy"), OMP>>),
     Compute("avo") >>

get_rvor ==
  << Fetch("u", "U", TRUE),
     Fetch("v", "V", TRUE),
     Fetch("msfu", "MAPFAC_U", TRUE),
     Fetch("msfv", "MAPFAC_V", TRUE),
     Fetch("msfm", "MAPFAC_M", TRUE),
     Fetch("cor", "F", TRUE),
     Attr("dx", "DX"),
     Attr("dy", "DY"),
     MapBlocks("avo", "avo_wrap",
               <<V("u"), V("v"), V("msfu"), V("msfv"), V("msfm"), V("cor"), V("dx"),
                 V("dy"), OMP>>),
     MapBlocks("rvor", "wrapped_sub", <<V("avo"), V("cor")>>),
     Compute("rvor") >>

get_pvo ==
  << Fetch("u", "U", TRUE),
     Fetch("v", "V", TRUE),
     Fetch("t", "T", TRUE),
     Fetch("p", "P", TRUE),
     Fetch("pb", "PB", TRUE),
     Fetch("msfu", "MAPFAC_U", TRUE),
     Fetch("msfv", "MAPFAC_V", TRUE),
     Fetch("msfm", "MAPFAC_M", TRUE),
     Fetch("cor", "F", TRUE),
     Attr("dx", "DX"),
     Attr("dy", "DY"),
     MapBlocks("full_t", "wrapped_add", <<V("t"), K(Num(300))>>),
     MapBlocks("full_p", "wrapped_add", <<V("p"), V("pb")>>),
     Del("t"),
     Del("p"),
     Del("pb"),
     MapBlocks("pvo", "pvo_wrap",
               <<V("u"), V("v"), V("full_t"), V("full_p"), V("msfu"), V("msfv"),
                 V("msfm"), V("cor"), V("dx"), V("dy"), OMP>>),
     Compute("pvo") >>

\* get_height and get_height_agl call get_geoht with height=True
Builders == {"get_theta", "get_tk", "get_tv", "get_tw", "get_cape3d", "get_dbz",
             "get_dewpoint", "get_geoht", "get_height", "get_height_agl", "get_srh",
             "get_udhel", "get_omega", "get_accum_precip", "get_pw", "get_rh",
             "get_slp", "get_avo", "get_rvor", "get_pvo"}

Program(b) ==
  CASE b = "get_theta" -> get_theta
    [] b = "get_tk" -> get_tk
    [] b = "get_tv" -> get_tv
    [] b = "get_tw" -> get_tw
    [] b = "get_cape3d" -> get_cape3d
    [] b = "get_dbz" -> get_dbz
    [] b = "get_dewpoint" -> get_dewpoint
    [] b \in {"get_geoht", "get_height", "get_height_agl"} -> get_geoht
    [] b = "get_srh" -> get_srh
    [] b = "get_udhel" -> get_udhel
    [] b = "get_omega" -> get_omega
    [] b = "get_accum_precip" -> get_accum_precip
    [] b = "get_pw" -> get_pw
    [] b = "get_rh" -> get_rh
    [] b = "get_slp" -> get_slp
    [] b = "get_avo" -> get_avo
    [] b = "get_rvor" -> get_rvor
    [] b = "get_pvo" -> get_pvo

\* ------------------------------------------------- executing a statement
\* The frame of a builder call: the next statement, the local names, the
\* graph built so far, and how the call ended.  released and runs record the
\* names deleted and the scheduler runs requested so far.
Bind(F, name, ref) ==
  [F EXCEPT !.env = (name :> ref) @@ F.env, !.pc = F.pc + 1]
AddNode(F, name, node) ==
  [F EXCEPT !.nodes = Append(F.nodes, node),
            !.env = (name :> NodeRef(Len(F.nodes) + 1)) @@ F.env,
            !.pc = F.pc + 1]
Raise(F, what) == [F EXCEPT !.status = "raised", !.result = Err(what)]

NamesRead(stmt) ==
  (IF stmt.src # "" THEN {stmt.src} ELSE {})
  \cup {stmt.args[i].name : i \in {j \in 1..Len(stmt.args) : stmt.args[j].a = "var"}}
  \cup (IF stmt.s = "del" THEN {stmt.dst} ELSE {})
  \cup (IF stmt.s = "compute" THEN {"num_workers"} ELSE {})

ArgRef(F, a) == IF a.a = "var" THEN F.env[a.name] ELSE Lit(Scalar(a.c))
ArgRefs(F, args) == [i \in 1..Len(args) |-> ArgRef(F, args[i])]

\* the shape a lazy array announces without being computed
LazyShape(node) ==
  IF node.op = "grid"
  THEN (IF node.sliced THEN Tail(GridShape(node.var)) ELSE GridShape(node.var))
  ELSE node.shape

GridNode(var, sliced) == [Node("grid") EXCEPT !.var = var, !.sliced = sliced]

\* wrapped_either: the first candidate name the store holds
FirstPresent(st, cands) ==
  cands[CHOOSE i \in 1..Len(cands) :
          cands[i] \in st.present /\ \A j \in 1..(i - 1) : cands[j] \notin st.present]

Truthy(ref) == ref.val.data[1].n # 0

\* a statement that builds: nothing is computed
Exec(F, stmt, st) ==
  IF ~(NamesRead(stmt) \subseteq DOMAIN F.env) THEN Raise(F, "NameError")
  ELSE CASE stmt.s = "fetch" ->
              IF stmt.var \in st.present
              THEN AddNode(F, stmt.dst, GridNode(stmt.var, stmt.sliced))
              ELSE Raise(F, "KeyError")
         [] stmt.s = "fetchnamed" ->
              IF F.env[stmt.src].s \in st.present
              THEN AddNode(F, stmt.dst, GridNode(F.env[stmt.src].s, TRUE))
              ELSE Raise(F, "KeyError")
         [] stmt.s = "fetchorzeros" ->
              IF stmt.var \in st.present
              THEN AddNode(F, stmt.dst, GridNode(stmt.var, TRUE))
              ELSE AddNode(F, stmt.dst,
                     [Node("zeros") EXCEPT
                        !.shape = LazyShape(F.nodes[F.env[stmt.src].id])])
         [] stmt.s = "attr" -> Bind(F, stmt.dst, Lit(GridAttr(stmt.var)))
         [] stmt.s = "either" ->
              IF \E i \in 1..Len(stmt.cands) : stmt.cands[i] \in st.present
              THEN Bind(F, stmt.dst, StrRef(FirstPresent(st, stmt.cands)))
              ELSE Raise(F, "LookupError")
         [] stmt.s = "map" ->
              AddNode(F, stmt.dst,
                [Node("map") EXCEPT !.fn = stmt.fn, !.args = ArgRefs(F, stmt.args)])
         [] stmt.s = "unstagger" ->
              AddNode(F, stmt.dst,
                [Node("unstagger") EXCEPT
                   !.args = <<F.env[stmt.src]>> \o ArgRefs(F, stmt.args),
                   !.ax = stmt.ax])
         [] stmt.s \in {"where", "reshape"} ->
              AddNode(F, stmt.dst, [Node(stmt.s) EXCEPT !.args = <<F.env[stmt.src]>>])
         [] stmt.s = "boolflag" ->
              Bind(F, stmt.dst,
                   Lit(Scalar(Num(IF Truthy(F.env[stmt.src]) THEN 1 ELSE 0))))
         [] stmt.s = "const" -> Bind(F, stmt.dst, Lit(Scalar(stmt.c)))
         [] stmt.s = "fill" ->
              Bind(F, stmt.dst, Lit([kind |-> "sym", name |-> "default_fill"]))
         [] stmt.s = "del" ->
              [F EXCEPT !.env = [n \in (DOMAIN F.env) \ {stmt.dst} |-> F.env[n]],
                        !.released = F.released \cup {stmt.dst},
                        !.pc = F.pc + 1]
         [] stmt.s = "ifname" ->
              [F EXCEPT !.pc = IF F.env[stmt.src].s = stmt.var THEN F.pc + 1 ELSE stmt.to]
         [] stmt.s = "iftrue" ->
              [F EXCEPT !.pc = IF Truthy(F.env[stmt.src]) THEN F.pc + 1 ELSE stmt.to]
         [] stmt.s = "goto" -> [F EXCEPT !.pc = stmt.to]

\* The statements that make the scheduler run.  Submit: the frame once the run
\* is requested (np.ascontiguousarray and bool() use the scheduler's default
\* worker count, compute() the builder's num_workers).  Deliver: the frame once
\* the run has handed back the value v.
Computing == {"ascontiguous", "any", "compute"}

Submit(F, stmt) ==
  IF ~(NamesRead(stmt) \subseteq DOMAIN F.env) THEN Raise(F, "NameError")
  ELSE CASE stmt.s = "compute" ->
              [F EXCEPT !.runs = Append(F.runs,
                 [node |-> F.env[stmt.src].id,
                  workers |-> F.env["num_workers"].val.data[1].n,
                  final |-> TRUE])]
         [] stmt.s = "ascontiguous" ->
              [F EXCEPT !.nodes = Append(F.nodes,
                                    [Node("reverse") EXCEPT !.args = <<F.env[stmt.src]>>]),
                        !.runs = Append(F.runs,
                 [node |-> Len(F.nodes) + 1, workers |-> NumCpus, final |-> FALSE])]
         [] stmt.s = "any" ->
              [F EXCEPT !.nodes = Append(F.nodes,
                                    [Node("any") EXCEPT !.args = <<F.env[stmt.src]>>]),
                        !.runs = Append(F.runs,
                 [node |-> Len(F.nodes) + 1, workers |-> NumCpus, final |-> FALSE])]

Deliver(F, stmt, v) ==
  IF IsErr(v) THEN Raise(F, v.what)
  ELSE CASE stmt.s = "compute" -> [F EXCEPT !.status = "returned", !.result = v]
         [] stmt.s = "ascontiguous" -> Bind(F, stmt.dst, Lit(v))
         [] stmt.s = "any" ->
              Bind(F, stmt.dst,
                   Lit(Scalar(Num(IF \E c \in 1..Len(v.blocks) : v.blocks[c].data[1].n # 0
                                  THEN 1 ELSE 0))))

\* a computing statement with the scheduler run taken as one step
ExecComputing(F, stmt, st) ==
  LET S == Submit(F, stmt)
  IN IF S.status = "raised" THEN S
     ELSE Deliver(S, stmt, Materialise(S.nodes, S.runs[Len(S.runs)].node, st))

\* ---------------------------------------------------------------- request
\* the keyword arguments of each builder, at the values a caller may give
Kwargs(b) ==
  CASE b = "get_dbz" -> {"use_varint", "use_liqskin"}
    [] b \in {"get_geoht", "get_height", "get_height_agl"} -> {"height", "msl"}
    [] b = "get_srh" -> {"top"}
    [] b = "get_udhel" -> {"bottom", "top"}
    [] OTHER -> {}

KwargValues(b, name) ==
  CASE name = "top" -> {IF b = "get_srh" THEN 3000 ELSE 5000}
    [] name = "bottom" -> {2000}
    [] name = "height" -> IF b = "get_geoht" THEN {0, 1} ELSE {1}
    [] name = "msl" -> IF b = "get_height_agl" THEN {0} ELSE {0, 1}
    [] OTHER -> {0, 1}

Requests(b) == [Kwargs(b) -> {0, 1, 2000, 3000, 5000}]

ValidRequest(b, kw) == \A name \in Kwargs(b) : kw[name] \in KwargValues(b, name)

InitEnv(b, kw, omp, workers) ==
  [name \in {"omp_threads", "num_workers"} \cup Kwargs(b) |->
     CASE name = "omp_threads" -> OmpRef(omp)
       [] name = "num_workers" -> WorkersRef(workers)
       [] OTHER -> Lit(Scalar(Num(kw[name])))]

InitFrame(b, kw, omp, workers) ==
  [pc |-> 1, env |-> InitEnv(b, kw, omp, workers), nodes |-> <<>>,
   status |-> "build", result |-> Nil, released |-> {}, runs |-> <<>>]

\* the whole call of a builder
RECURSIVE Run(_, _, _)
Run(F, prog, st) ==
  IF F.status # "build" THEN F
  ELSE IF prog[F.pc].s \in Computing THEN Run(ExecComputing(F, prog[F.pc], st), prog, st)
  ELSE Run(Exec(F, prog[F.pc], st), prog, st)

\* the grid stores explored: one variable (or one pair) absent, or none
AbsentSets ==
  {{}} \cup {{v} : v \in {"T", "P", "PB", "QVAPOR", "QRAIN", "QSNOW", "QGRAUP", "PH",
                           "U", "V", "XLAT"}}
       \cup {{"QSNOW", "QGRAUP"}, {"PH", "GHT"}}
Stores == [present : {AllVars \ a : a \in AbsentSets},
           zero : {{}, {"QSNOW"}},
           qv : {-1, 1}]

\* ------------------------------------------------------------------ state
VARIABLES
  daskArray,     \* the grid store handed to the builder
  builder,       \* the builder called
  kwargs,        \* its keyword arguments other than the two below
  omp_threads,   \* the thread budget of the request
  num_workers,   \* the worker count of the request
  pc,            \* the next statement of the builder
  env,           \* the builder's local names
  nodes,         \* the lazy graph built so far
  status,        \* "build", "wait" (in compute), "returned" or "raised"
  result,        \* the array returned, or the exception raised
  released,      \* the names deleted so far
  runs,          \* the scheduler runs requested so far
  tasks,         \* the chunk tasks of the scheduler run in progress: per (node,
                 \* chunk) its state, the ceiling it set (0: none), its block
  ceiling,       \* the process-wide OpenMP thread ceiling
  other          \* an adapter call made by another request in the same process

request == <<daskArray, builder, kwargs, omp_threads, num_workers>>
frame == <<pc, env, nodes, status, result, released, runs>>
process == <<tasks, ceiling, other>>
vars == <<daskArray, builder, kwargs, omp_threads, num_workers, pc, env, nodes, status,
          result, released, runs, tasks, ceiling, other>>

Frame == [pc |-> pc, env |-> env, nodes |-> nodes, status |-> status,
          result |-> result, released |-> released, runs |-> runs]
SetFrame(F) ==
  /\ pc' = F.pc
  /\ env' = F.env
  /\ nodes' = F.nodes
  /\ status' = F.status
  /\ result' = F.result
  /\ released' = F.released
  /\ runs' = F.runs

Cur == Program(builder)[pc]

NoTasks == [t \in {} |-> Nil]
Idle == [st |-> "idle", omp |-> 0, calls |-> 0]

\* the nodes below node id, id included
RECURSIVE Needed(_, _)
Needed(ns, id) ==
  {id} \cup UNION {Needed(ns, ns[id].args[i].id) :
                     i \in {j \in 1..Len(ns[id].args) : ns[id].args[j].k = "node"}}

\* A block of the store (or of da.zeros) is data the scheduler holds already;
\* every other node costs one task per chunk.
IsLeaf(node) == node.op \in {"grid", "zeros"}
TaskNodes(ns, id) == {n \in Needed(ns, id) : ~IsLeaf(ns[n])}

IsAdapterCall(node) ==
  node.op = "map" /\ node.fn \in AdapterNames /\ Callable(node.fn, Len(node.args))

\* the values the arguments of node id hold for chunk c once the tasks below
\* it are done
TaskArgs(ns, ts, st, id, c) ==
  [i \in 1..Len(ns[id].args) |->
     LET a == ns[id].args[i]
     IN IF a.k # "node" THEN a.val
        ELSE IF IsLeaf(ns[a.id]) THEN NodeApply(ns[a.id], c, st, <<>>)
        ELSE ts[<<a.id, c>>].val]

\* the ceilings the adapter calls of a whole run on node id set
CeilingsSet(ns, id) ==
  {AdapterCeiling(ns[n].fn, [i \in 1..Len(ns[n].args) |-> ns[n].args[i].val]) :
     n \in {m \in Needed(ns, id) : IsAdapterCall(ns[m])}}

InitRequest(bs, stores) ==
  /\ daskArray \in stores
  /\ builder \in bs
  /\ kwargs \in {kw \in Requests(builder) : ValidRequest(builder, kw)}
  /\ omp_threads \in 1..MaxThreads
  /\ num_workers \in 1..MaxWorkers
  /\ pc = 1
  /\ env = InitEnv(builder, kwargs, omp_threads, num_workers)
  /\ nodes = <<>>
  /\ status = "build"
  /\ result = Nil
  /\ released = {}
  /\ runs = <<>>
  /\ tasks = NoTasks
  /\ ceiling = NumCpus
  /\ other = Idle

\* ------------------------------------------- the builder, statement by statement
Building(kinds) ==
  /\ status = "build"
  /\ Cur.s \in kinds
  /\ SetFrame(Exec(Frame, Cur, daskArray))
  /\ UNCHANGED <<request, process>>

FetchGrid == Building({"fetch"})
FetchNamedGrid == Building({"fetchnamed"})
FetchOptionalGrid == Building({"fetchorzeros"})
ReadAttr == Building({"attr"})
ResolveName == Building({"either"})
AddMapBlocks == Building({"map"})
AddUnstagger == Building({"unstagger"})
AddWhere == Building({"where"})
AddReshape == Building({"reshape"})
SetFlag == Building({"boolflag", "const", "fill"})
Release == Building({"del"})
Branch == Building({"ifname", "iftrue", "goto"})

\* a computing statement, the scheduler run inside it taken as one step
Computes(kinds) ==
  /\ status = "build"
  /\ Cur.s \in kinds
  /\ LET S == Submit(Frame, Cur)
     IN /\ SetFrame(ExecComputing(Frame, Cur, daskArray))
        /\ ceiling' \in IF S.status = "raised" \/ CeilingsSet(S.nodes, S.runs[Len(S.runs)].node) = {}
                        THEN {ceiling}
                        ELSE CeilingsSet(S.nodes, S.runs[Len(S.runs)].node)
  /\ UNCHANGED <<request, tasks, other>>

MakeContiguous == Computes({"ascontiguous"})
TestAny == Computes({"any"})
ComputeResult == Computes({"compute"})

Init == InitRequest(Builders, Stores)

Next ==
  \/ FetchGrid
  \/ FetchNamedGrid
  \/ FetchOptionalGrid
  \/ ReadAttr
  \/ ResolveName
  \/ AddMapBlocks
  \/ AddUnstagger
  \/ AddWhere
  \/ AddReshape
  \/ SetFlag
  \/ Release
  \/ Branch
  \/ MakeContiguous
  \/ TestAny
  \/ ComputeResult

Spec == Init /\ [][Next]_vars

\* --------------------------------------------- the scheduler, task by task
\* The builder runs on to its next computing statement in one step; the run
\* it then requests executes one task per node and chunk, at most the run's
\* worker count of them at a time, in any order the dependencies allow.
RECURSIVE Advance(_, _, _)
Advance(F, prog, st) ==
  IF F.status # "build" \/ prog[F.pc].s \in Computing THEN F
  ELSE Advance(Exec(F, prog[F.pc], st), prog, st)

CurRun == runs[Len(runs)]
Running == {t \in DOMAIN tasks : tasks[t].st = "running"}
Ready(t) ==
  /\ tasks[t].st = "todo"
  /\ \A i \in 1..Len(nodes[t[1]].args) :
       LET a == nodes[t[1]].args[i]
       IN a.k = "node" /\ ~IsLeaf(nodes[a.id]) => tasks[<<a.id, t[2]>>].st = "done"

Build ==
  /\ status = "build"
  /\ Cur.s \notin Computing
  /\ SetFrame(Advance(Frame, Program(builder), daskArray))
  /\ UNCHANGED <<request, process>>

SubmitRun ==
  /\ status = "build"
  /\ Cur.s \in Computing
  /\ LET S == Submit(Frame, Cur)
     IN IF S.status = "raised"
        THEN SetFrame(S) /\ UNCHANGED tasks
        ELSE /\ SetFrame([S EXCEPT !.status = "wait"])
             /\ tasks' = [t \in TaskNodes(S.nodes, S.runs[Len(S.runs)].node) \X (1..NumChunks)
                            |-> [st |-> "todo", set |-> 0, val |-> Nil]]
  /\ UNCHANGED <<request, ceiling, other>>

\* a worker takes a task; an adapter's first statement is omp_set_num_threads
TaskStart(t) ==
  /\ status = "wait"
  /\ Ready(t)
  /\ Cardinality(Running) < CurRun.workers
  /\ LET set == IF IsAdapterCall(nodes[t[1]])
                THEN AdapterCeiling(nodes[t[1]].fn,
                                    TaskArgs(nodes, tasks, daskArray, t[1], t[2]))
                ELSE 0
     IN /\ tasks' = [tasks EXCEPT ![t].st = "running", ![t].set = set]
        /\ ceiling' = IF set # 0 THEN set ELSE ceiling
  /\ UNCHANGED <<request, frame, other>>

\* the task's function returns its block
TaskFinish(t) ==
  /\ status = "wait"
  /\ tasks[t].st = "running"
  /\ tasks' = [tasks EXCEPT ![t] =
       [st |-> "done",
        set |-> tasks[t].set,
        val |-> NodeApply(nodes[t[1]], t[2], daskArray, TaskArgs(nodes, tasks, daskArray, t[1], t[2]))]]
  /\ UNCHANGED <<request, frame, ceiling, other>>

\* every task is done: the run hands its value back to the statement
GatherRun ==
  /\ status = "wait"
  /\ \A t \in DOMAIN tasks : tasks[t].st = "done"
  /\ SetFrame(Deliver([Frame EXCEPT !.status = "build"], Cur,
                      Gather([c \in 1..NumChunks |-> tasks[<<CurRun.node, c>>].val])))
  /\ tasks' = NoTasks
  /\ UNCHANGED <<request, ceiling, other>>

\* an adapter call of another request in the same process, with its own budget
OtherEnter(o) ==
  /\ status = "wait"
  /\ other.st = "idle"
  /\ other.calls < MaxOtherCalls
  /\ other' = [st |-> "kernel", omp |-> o, calls |-> other.calls + 1]
  /\ ceiling' = o
  /\ UNCHANGED <<request, frame, tasks>>

OtherReturn ==
  /\ other.st = "kernel"
  /\ other' = [other EXCEPT !.st = "idle", !.omp = 0]
  /\ UNCHANGED <<request, frame, tasks, ceiling>>

SchedBuilders == Builders
SchedStores == {s \in Stores : s.present = AllVars /\ s.qv = -1 /\ s.zero = {}}
\* the two largest graphs are run with one worker and one thread only
LargeGraphs == {"get_cape3d", "get_slp"}

InitSched ==
  /\ InitRequest(SchedBuilders, SchedStores)
  /\ builder \in LargeGraphs => num_workers = 1 /\ omp_threads = 1

NextSched ==
  \/ Build
  \/ SubmitRun
  \/ \E t \in DOMAIN tasks : TaskStart(t)
  \/ \E t \in DOMAIN tasks : TaskFinish(t)
  \/ GatherRun
  \/ \E o \in 1..MaxThreads : OtherEnter(o)
  \/ OtherReturn

SpecSched == InitSched /\ [][NextSched]_vars

\* ================================================================ claims
Ended == status \in {"returned", "raised"}
MapNodes == {n \in 1..Len(nodes) : nodes[n].op = "map"}
ArgKinds(node) == {node.args[i].k : i \in 1..Len(node.args)}

\* C1: in every kernel-adapter node a builder adds, omp_threads receives the
\* builder's thread budget and every operand parameter receives an operand;
\* the budget is bound to no operand position and is handed to no elementwise
\* operator.
C1_BudgetBinding ==
  \A n \in MapNodes :
    LET node == nodes[n]
    IN IF node.fn \in AdapterNames
       THEN /\ Len(node.args) = Len(Adapters[node.fn].params)
            /\ \A i \in 1..Len(node.args) :
                 node.args[i].k = "omp" <=> i = ParamPos(node.fn, "omp_threads")
       ELSE "omp" \notin ArgKinds(node)

\* C2: the scheduler runs exactly once per builder call, for the terminal
\* compute; nothing is materialised while the graph is built, so no node
\* receives a concrete array as an operand.
C2_SingleTerminalCompute ==
  /\ \A i \in 1..Len(runs) : runs[i].final
  /\ status = "returned" => Len(runs) = 1
  /\ \A n \in 1..Len(nodes) : \A i \in 1..Len(nodes[n].args) :
       nodes[n].args[i].k = "lit" => nodes[n].args[i].val.kind # "np"

\* C3: what a builder call returns (or raises) is what the same call returns
\* with one worker and a thread budget of one, whatever the order in which the
\* scheduler ran the chunks.
C3_SameResult ==
  Ended => result = Run(InitFrame(builder, kwargs, 1, 1), Program(builder), daskArray).result

\* C4: a kernel adapter sets the ceiling to its omp_threads, calls its kernel
\* once with every operand it was given, and returns the kernel's result.
OperandsGiven(fn, args) ==
  [i \in 1..(Len(Adapters[fn].params) - 1) |-> ParamValue(fn, Adapters[fn].params[i], args)]
C4_AdapterCall ==
  \A t \in DOMAIN tasks :
    LET node == nodes[t[1]]
        args == TaskArgs(nodes, tasks, daskArray, t[1], t[2])
    IN IsAdapterCall(node) =>
         /\ tasks[t].st # "todo" => tasks[t].set = AdapterCeiling(node.fn, args)
         /\ (tasks[t].st = "done" /\ \A i \in 1..Len(args) : ~IsErr(args[i])) =>
              tasks[t].val = [kind |-> "ker", fn |-> Adapters[node.fn].kernel,
                              args |-> OperandsGiven(node.fn, args)]

\* C5: get_dbz with QSNOW or QGRAUP absent returns what it returns on the store
\* that holds an all-zero array in its place, with the same sn0; with T, P, PB,
\* QVAPOR or QRAIN absent it raises the lookup failure.
ZeroFilled(st) ==
  [st EXCEPT !.present = st.present \cup {"QSNOW", "QGRAUP"},
             !.zero = st.zero \cup ({"QSNOW", "QGRAUP"} \ st.present)]
DbzRequired == {"T", "P", "PB", "QVAPOR", "QRAIN"}
C5_MissingSnowGraupel ==
  (builder = "get_dbz" /\ Ended) =>
    IF DbzRequired \subseteq daskArray.present
    THEN LET R == Run(InitFrame(builder, kwargs, omp_threads, num_workers), get_dbz,
                      ZeroFilled(daskArray))
         IN /\ status = "returned"
            /\ R.status = "returned"
            /\ result = R.result
            /\ env["sn0"] = R.env["sn0"]
            /\ ("QSNOW" \notin daskArray.present => env["sn0"] = Lit(Scalar(Num(0))))
    ELSE status = "raised" /\ result = Err("KeyError")
C5_Witness ==
  /\ builder = "get_dbz"
  /\ status = "returned"
  /\ "QSNOW" \notin daskArray.present
  /\ "QGRAUP" \in daskArray.present

\* C6: get_rh and get_dewpoint hand their kernel the water-vapour mixing ratio
\* of the time slice of the pressure, negatives replaced by zero, in the shape
\* of the pressure.
MoistKernel == [get_rh |-> [qv |-> 1, p |-> 2], get_dewpoint |-> [qv |-> 2, p |-> 1]]
C6_ClampedMixingRatio ==
  (builder \in DOMAIN MoistKernel /\ status = "returned") =>
    \A c \in 1..NumChunks :
      LET qv == result.blocks[c].args[MoistKernel[builder].qv]
          p == result.blocks[c].args[MoistKernel[builder].p]
      IN /\ qv = Clamp(Slice0(GridBlock(daskArray, "QVAPOR", c)))
         /\ qv.shape = p.shape

\* C7: a perturbation is added to its own base state only: P to PB, T to 300,
\* PH to PHB; with P = 1000 and PB = 500 the full pressure is 1500, with T = 0
\* the full potential temperature is 300.
BaseOf == [P |-> "PB", PH |-> "PHB"]
C7_FullQuantities ==
  \A n \in MapNodes :
    LET node == nodes[n]
        a == node.args[1]
        b == node.args[2]
        v == NodeBlock(nodes, n, 1, daskArray)
    IN (node.fn = "wrapped_add" /\ a.k = "node" /\ nodes[a.id].op = "grid"
          /\ nodes[a.id].var \in {"P", "PH", "T"}) =>
         IF nodes[a.id].var = "T"
         THEN /\ b.k = "lit" /\ b.val = Scalar(Num(300))
              /\ IsArr(v) => v.data[1] = Num(300)
         ELSE /\ b.k = "node" /\ nodes[b.id].op = "grid"
              /\ nodes[b.id].var = BaseOf[nodes[a.id].var]
              /\ (nodes[a.id].var = "P" /\ IsArr(v)) => v.data[1] = Num(1500)

\* C8: num_workers reaches the terminal compute only, and never more than
\* num_workers tasks are in progress; with one worker no two chunks are inside
\* the wet-bulb or the CAPE kernel at once.
Unsafe == {"wetbulb_wrap", "cape_wrap"}
C8_WorkerBound ==
  /\ \A n \in 1..Len(nodes) : "workers" \notin ArgKinds(nodes[n])
  /\ Cardinality(Running) <= num_workers
  /\ num_workers = 1 =>
       Cardinality({t \in Running : nodes[t[1]].fn \in Unsafe}) <= 1

\* C9: while a kernel runs, the process-wide ceiling is the omp_threads of the
\* adapter call that invoked it.
C9_CeilingDuringKernel ==
  /\ \A t \in Running : tasks[t].set # 0 => ceiling = tasks[t].set
  /\ other.st = "kernel" => ceiling = other.omp

\* C10 as stated: when the terminal compute is triggered, every name bound to a
\* raw grid or to an intermediate lazy array, the final node apart, has been
\* released.
TerminalRequested == Len(runs) > 0 /\ runs[Len(runs)].final
Arrays(e) == {name \in DOMAIN e : e[name].k = "node" \/
                                  (e[name].k = "lit" /\ e[name].val.kind = "np")}
C10_AllReleased ==
  status = "returned" => Arrays(env) \subseteq {Cur.src}

\* C10 as amended: a name a builder releases is read by no statement still to
\* run, so no released reference is ever read, and nothing is released once
\* the terminal compute is triggered.
C10_ReleaseDiscipline ==
  /\ result # Err("NameError")
  /\ status = "build" =>
       \A j \in pc..Len(Program(builder)) :
         NamesRead(Program(builder)[j]) \cap released = {}
  /\ TerminalRequested => status # "build"
C10_Witness ==
  /\ builder = "get_tk"
  /\ status = "returned"
  /\ released = {"t", "p", "pb"}

====
